---- MODULE Spec2Model ----
(***************************************************************************)
(* A model of frictionless_ckan_mapper/converter.py: the two conversions   *)
(* dataset_to_datapackage and datapackage_to_dataset, their field parsers, *)
(* the two resource converters and the resource-name de-duplicator.        *)
(*                                                                         *)
(* Python values are pairs <<tag, payload>>; a Python str is a sequence of  *)
(* one-character strings; a Python dict is a sequence of <<key, value>>    *)
(* pairs with distinct keys, in insertion order.  Resource dicts of the    *)
(* dataset side live in a heap and are held by reference, so that aliasing *)
(* between the input and the output of a conversion is part of the model.  *)
(***************************************************************************)
EXTENDS Integers, Sequences, FiniteSets, TLC

VARIABLES call, pc, dataset_dict, datapackage, heap, i, names, acc, ret, exc,
          input0, origin

vars == <<call, pc, dataset_dict, datapackage, heap, i, names, acc, ret, exc,
          input0, origin>>

(***************************************************************************)
(* Bounds of the model.                                                    *)
(***************************************************************************)
MaxRes == 3
MaxAuthorLen == 4
MaxTags == 2
MaxExtras == 2
MaxLoadRes == 1

(***************************************************************************)
(* Python values.                                                          *)
(***************************************************************************)
None == <<"null", 0>>
Str(s) == <<"str", s>>
Num(n) == <<"num", n>>
Bool(b) == <<"bool", b>>
List(l) == <<"list", l>>
Dict(d) == <<"dict", d>>
Ref(n) == <<"ref", n>>

\* bool(x): the truth value Python's `if x:` tests
Truthy(x) ==
    CASE x[1] = "null" -> FALSE
      [] x[1] = "str" -> x[2] # <<>>
      [] x[1] = "num" -> x[2] # 0
      [] x[1] = "bool" -> x[2]
      [] x[1] = "list" -> x[2] # <<>>
      [] x[1] = "dict" -> x[2] # <<>>
      [] OTHER -> TRUE

(***************************************************************************)
(* Python dicts: sequences of <<key, value>> pairs.                        *)
(***************************************************************************)
Keys(d) == {d[n][1] : n \in DOMAIN d}

Has(d, k) == \E n \in DOMAIN d : d[n][1] = k

\* d[k], defined when k is a key of d
Item(d, k) == d[CHOOSE n \in DOMAIN d : d[n][1] = k][2]

\* d.get(k)
Get(d, k) == IF Has(d, k) THEN Item(d, k) ELSE None

\* d.get(k, default)
GetDefault(d, k, default) == IF Has(d, k) THEN Item(d, k) ELSE default

\* d[k] = v
Put(d, k, v) ==
    IF Has(d, k)
    THEN [d EXCEPT ![CHOOSE n \in DOMAIN d : d[n][1] = k] = <<k, v>>]
    ELSE Append(d, <<k, v>>)

RECURSIVE Update(_, _)
\* d.update(e)
Update(d, e) ==
    IF e = <<>> THEN d ELSE Update(Put(d, e[1][1], e[1][2]), Tail(e))

\* dict(pairs): later pairs overwrite earlier ones with the same key
DictOf(pairs) == Update(<<>>, pairs)

(***************************************************************************)
(* Python strings.                                                         *)
(***************************************************************************)
UpperChars ==
    <<"A", "B", "C", "D", "E", "F", "G", "H", "I", "J", "K", "L", "M",
      "N", "O", "P", "Q", "R", "S", "T", "U", "V", "W", "X", "Y", "Z">>
LowerChars ==
    <<"a", "b", "c", "d", "e", "f", "g", "h", "i", "j", "k", "l", "m",
      "n", "o", "p", "q", "r", "s", "t", "u", "v", "w", "x", "y", "z">>
Digits == <<"0", "1", "2", "3", "4", "5", "6", "7", "8", "9">>
Whitespace == {" ", "\t", "\n", "\r"}

IsUpper(c) == \E n \in DOMAIN UpperChars : UpperChars[n] = c
IsDigit(c) == \E n \in DOMAIN Digits : Digits[n] = c
DigitVal(c) == (CHOOSE n \in DOMAIN Digits : Digits[n] = c) - 1

LowerChar(c) ==
    IF IsUpper(c)
    THEN LowerChars[CHOOSE n \in DOMAIN UpperChars : UpperChars[n] = c]
    ELSE c

\* s.lower()
Lower(s) == [n \in DOMAIN s |-> LowerChar(s[n])]

RECURSIVE LStrip(_)
LStrip(s) ==
    IF s # <<>> /\ Head(s) \in Whitespace THEN LStrip(Tail(s)) ELSE s

RECURSIVE RStrip(_)
RStrip(s) ==
    IF s # <<>> /\ s[Len(s)] \in Whitespace
    THEN RStrip(SubSeq(s, 1, Len(s) - 1))
    ELSE s

\* s.strip()
Strip(s) == RStrip(LStrip(s))

RECURSIVE IntToStr(_)
\* str(n) for an int n >= 0
IntToStr(n) ==
    IF n < 10
    THEN <<Digits[n + 1]>>
    ELSE IntToStr(n \div 10) \o <<Digits[(n % 10) + 1]>>

IsSlugChar(c) ==
    \/ IsDigit(c)
    \/ \E n \in DOMAIN LowerChars : LowerChars[n] = c

RECURSIVE Hyphenate(_)
\* every run of characters outside [a-z0-9] becomes one "-"
Hyphenate(s) ==
    IF s = <<>> THEN <<>>
    ELSE IF IsSlugChar(Head(s)) THEN <<Head(s)>> \o Hyphenate(Tail(s))
    ELSE LET rest == Hyphenate(Tail(s))
         IN  IF rest # <<>> /\ Head(rest) = "-" THEN rest ELSE <<"-">> \o rest

RECURSIVE StripHyphens(_)
StripHyphens(s) ==
    IF s # <<>> /\ Head(s) = "-" THEN StripHyphens(Tail(s))
    ELSE IF s # <<>> /\ s[Len(s)] = "-"
    THEN StripHyphens(SubSeq(s, 1, Len(s) - 1))
    ELSE s

\* slugify.slugify(s): lower-case, ASCII, hyphen-joined tokens
Slugify(s) == StripHyphens(Hyphenate(Lower(s)))

(***************************************************************************)
(* The json module: json.loads and json.dumps on the JSON texts built from *)
(* null, true, false, non-negative integers, strings without escapes,      *)
(* arrays and objects, with optional blanks between the tokens.            *)
(***************************************************************************)
JsonFail == [ok |-> FALSE, val |-> None, pos |-> 0]
JsonOk(v, p) == [ok |-> TRUE, val |-> v, pos |-> p]

RECURSIVE SkipWs(_, _)
SkipWs(s, p) ==
    IF p <= Len(s) /\ s[p] \in Whitespace THEN SkipWs(s, p + 1) ELSE p

\* s holds the characters of word from position p on
Literal(s, p, word) ==
    /\ p + Len(word) - 1 <= Len(s)
    /\ SubSeq(s, p, p + Len(word) - 1) = word

RECURSIVE DigitsEnd(_, _)
\* the position after the run of digits that starts at p
DigitsEnd(s, p) ==
    IF p <= Len(s) /\ IsDigit(s[p]) THEN DigitsEnd(s, p + 1) ELSE p

RECURSIVE DigitsValue(_, _)
DigitsValue(ds, n) ==
    IF ds = <<>> THEN n ELSE DigitsValue(Tail(ds), 10 * n + DigitVal(Head(ds)))

RECURSIVE QuoteEnd(_, _)
\* the position of the next double quote at or after p, Len(s) + 1 if none
QuoteEnd(s, p) ==
    IF p <= Len(s) /\ s[p] # "\"" THEN QuoteEnd(s, p + 1) ELSE p

RECURSIVE ParseValue(_, _)
RECURSIVE ParseElems(_, _, _)
RECURSIVE ParseMembers(_, _, _)

\* the JSON value that starts at position p, blanks skipped
ParseValue(s, p) ==
    LET q == SkipWs(s, p)
    IN  IF q > Len(s) THEN JsonFail
        ELSE IF Literal(s, q, <<"n", "u", "l", "l">>) THEN JsonOk(None, q + 4)
        ELSE IF Literal(s, q, <<"t", "r", "u", "e">>) THEN JsonOk(Bool(TRUE), q + 4)
        ELSE IF Literal(s, q, <<"f", "a", "l", "s", "e">>)
             THEN JsonOk(Bool(FALSE), q + 5)
        ELSE IF s[q] = "0" THEN JsonOk(Num(0), q + 1)
        ELSE IF IsDigit(s[q])
             THEN LET e == DigitsEnd(s, q)
                  IN  JsonOk(Num(DigitsValue(SubSeq(s, q, e - 1), 0)), e)
        ELSE IF s[q] = "\""
             THEN LET e == QuoteEnd(s, q + 1)
                  IN  IF e > Len(s) THEN JsonFail
                      ELSE JsonOk(Str(SubSeq(s, q + 1, e - 1)), e + 1)
        ELSE IF s[q] = "["
             THEN LET r == SkipWs(s, q + 1)
                  IN  IF r <= Len(s) /\ s[r] = "]"
                      THEN JsonOk(List(<<>>), r + 1)
                      ELSE ParseElems(s, r, <<>>)
        ELSE IF s[q] = "{"
             THEN LET r == SkipWs(s, q + 1)
                  IN  IF r <= Len(s) /\ s[r] = "}"
                      THEN JsonOk(Dict(<<>>), r + 1)
                      ELSE ParseMembers(s, r, <<>>)
        ELSE JsonFail

\* the elements of an array from position p on, after those in done
ParseElems(s, p, done) ==
    LET e == ParseValue(s, p)
        q == SkipWs(s, e.pos)
    IN  IF ~e.ok \/ q > Len(s) THEN JsonFail
        ELSE IF s[q] = "," THEN ParseElems(s, q + 1, Append(done, e.val))
        ELSE IF s[q] = "]" THEN JsonOk(List(Append(done, e.val)), q + 1)
        ELSE JsonFail

\* the members of an object from position p on, after those in done
ParseMembers(s, p, done) ==
    LET q == SkipWs(s, p)
        e == QuoteEnd(s, q + 1)
        c == SkipWs(s, e + 1)
        m == ParseValue(s, c + 1)
        r == SkipWs(s, m.pos)
    IN  IF q > Len(s) \/ s[q] # "\"" \/ e > Len(s) THEN JsonFail
        ELSE IF c > Len(s) \/ s[c] # ":" THEN JsonFail
        ELSE IF ~m.ok \/ r > Len(s) THEN JsonFail
        ELSE IF s[r] = ","
             THEN ParseMembers(s, r + 1, Put(done, SubSeq(s, q + 1, e - 1), m.val))
        ELSE IF s[r] = "}"
             THEN JsonOk(Dict(Put(done, SubSeq(s, q + 1, e - 1), m.val)), r + 1)
        ELSE JsonFail

\* json.loads(x): ok is FALSE where Python raises ValueError (x a str that is
\* no JSON text) or TypeError (x not a str)
Loads(x) ==
    IF x[1] # "str" THEN JsonFail
    ELSE LET e == ParseValue(x[2], 1)
         IN  IF e.ok /\ SkipWs(x[2], e.pos) > Len(x[2]) THEN e ELSE JsonFail

RECURSIVE DumpsValue(_)
RECURSIVE DumpsElems(_)
RECURSIVE DumpsMembers(_)

DumpsValue(x) ==
    CASE x[1] = "null" -> <<"n", "u", "l", "l">>
      [] x[1] = "bool" ->
            IF x[2] THEN <<"t", "r", "u", "e">> ELSE <<"f", "a", "l", "s", "e">>
      [] x[1] = "num" -> IntToStr(x[2])
      [] x[1] = "str" -> <<"\"">> \o x[2] \o <<"\"">>
      [] x[1] = "list" -> <<"[">> \o DumpsElems(x[2]) \o <<"]">>
      [] x[1] = "dict" -> <<"{">> \o DumpsMembers(x[2]) \o <<"}">>

\* the elements joined by ", "
DumpsElems(l) ==
    IF l = <<>> THEN <<>>
    ELSE IF Len(l) = 1 THEN DumpsValue(l[1])
    ELSE DumpsValue(l[1]) \o <<",", " ">> \o DumpsElems(Tail(l))

\* the members as "key": value, joined by ", "
DumpsMembers(d) ==
    IF d = <<>> THEN <<>>
    ELSE LET m == <<"\"">> \o d[1][1] \o <<"\"", ":", " ">> \o DumpsValue(d[1][2])
         IN  IF Len(d) = 1 THEN m ELSE m \o <<",", " ">> \o DumpsMembers(Tail(d))

\* json.dumps(x), a str
Dumps(x) == Str(DumpsValue(x))

(***************************************************************************)
(* The keys the converter reads and writes.                                *)
(***************************************************************************)
k_name == <<"n", "a", "m", "e">>
k_title == <<"t", "i", "t", "l", "e">>
k_version == <<"v", "e", "r", "s", "i", "o", "n">>
k_notes == <<"n", "o", "t", "e", "s">>
k_ckan_url == <<"c", "k", "a", "n", "_", "u", "r", "l">>
k_homepage == <<"h", "o", "m", "e", "p", "a", "g", "e">>
k_description == <<"d", "e", "s", "c", "r", "i", "p", "t", "i", "o", "n">>
k_license == <<"l", "i", "c", "e", "n", "s", "e">>
k_license_id == <<"l", "i", "c", "e", "n", "s", "e", "_", "i", "d">>
k_license_title == <<"l", "i", "c", "e", "n", "s", "e", "_", "t", "i", "t", "l", "e">>
k_license_url == <<"l", "i", "c", "e", "n", "s", "e", "_", "u", "r", "l">>
k_type == <<"t", "y", "p", "e">>
k_url == <<"u", "r", "l">>
k_author == <<"a", "u", "t", "h", "o", "r">>
k_author_email == <<"a", "u", "t", "h", "o", "r", "_", "e", "m", "a", "i", "l">>
k_maintainer == <<"m", "a", "i", "n", "t", "a", "i", "n", "e", "r">>
k_maintainer_email == <<"m", "a", "i", "n", "t", "a", "i", "n", "e", "r", "_", "e", "m", "a", "i", "l">>
k_sources == <<"s", "o", "u", "r", "c", "e", "s">>
k_email == <<"e", "m", "a", "i", "l">>
k_web == <<"w", "e", "b">>
k_tags == <<"t", "a", "g", "s">>
k_keywords == <<"k", "e", "y", "w", "o", "r", "d", "s">>
k_extras == <<"e", "x", "t", "r", "a", "s">>
k_key == <<"k", "e", "y">>
k_value == <<"v", "a", "l", "u", "e">>
k_resources == <<"r", "e", "s", "o", "u", "r", "c", "e", "s">>
k_path == <<"p", "a", "t", "h">>
k_data == <<"d", "a", "t", "a">>
k_format == <<"f", "o", "r", "m", "a", "t">>
k_hash == <<"h", "a", "s", "h">>
k_schema == <<"s", "c", "h", "e", "m", "a">>
k_id == <<"i", "d">>

(***************************************************************************)
(* The parsers of dataset_to_datapackage.  Each returns the dict that the  *)
(* pipeline merges into the datapackage.                                   *)
(***************************************************************************)
\* a faulty variant: copies the key whenever it is present, whatever its value
rename_dict_key_present(original_key, destination_key, the_dict) ==
    IF Has(the_dict, original_key)
    THEN <<<<destination_key, Item(the_dict, original_key)>>>>
    ELSE <<>>

rename_dict_key(original_key, destination_key, the_dict) ==
    IF Truthy(Get(the_dict, original_key))
    THEN <<<<destination_key, Item(the_dict, original_key)>>>>
    ELSE <<>>

\* if src.get(src_key): dst[dst_key] = src[src_key]
CopyIfTruthy(dst, dst_key, src, src_key) ==
    IF Truthy(Get(src, src_key)) THEN Put(dst, dst_key, Item(src, src_key)) ELSE dst

parse_ckan_url(d) == CopyIfTruthy(<<>>, k_homepage, d, k_ckan_url)

\* a faulty variant: copies notes under its own key, without renaming it
parse_notes_unrenamed(d) == CopyIfTruthy(<<>>, k_notes, d, k_notes)

parse_notes(d) == CopyIfTruthy(<<>>, k_description, d, k_notes)

parse_license(d) ==
    LET l1 == CopyIfTruthy(<<>>, k_type, d, k_license_id)
        l2 == CopyIfTruthy(l1, k_title, d, k_license_title)
        dataset_license == CopyIfTruthy(l2, k_url, d, k_license_url)
    IN  IF dataset_license # <<>>
        THEN <<<<k_license, Dict(dataset_license)>>>>
        ELSE <<>>

parse_author_and_source(d) ==
    LET s1 == CopyIfTruthy(<<>>, k_name, d, k_author)
        s2 == CopyIfTruthy(s1, k_email, d, k_author_email)
        source == CopyIfTruthy(s2, k_web, d, k_url)
    IN  IF source # <<>>
        THEN <<<<k_sources, List(<<Dict(source)>>)>>>>
        ELSE <<>>

parse_maintainer(d) ==
    LET a1 == CopyIfTruthy(<<>>, k_name, d, k_maintainer)
        author == CopyIfTruthy(a1, k_email, d, k_maintainer_email)
    IN  IF author # <<>> THEN <<<<k_author, Dict(author)>>>> ELSE <<>>

parse_tags(d) ==
    LET tags == GetDefault(d, k_tags, List(<<>>))[2]
        keywords == [n \in DOMAIN tags |-> Item(tags[n][2], k_name)]
    IN  IF keywords # <<>> THEN <<<<k_keywords, List(keywords)>>>> ELSE <<>>

\* extra[1] after the try block: the decoded value, or the value itself
DecodeExtra(value) == IF Loads(value).ok THEN Loads(value).val ELSE value

parse_extras(d) ==
    LET given == GetDefault(d, k_extras, List(<<>>))[2]
        extras == [n \in DOMAIN given |->
                      <<Item(given[n][2], k_key)[2],
                        DecodeExtra(Item(given[n][2], k_value))>>]
    IN  IF extras # <<>> THEN <<<<k_extras, Dict(DictOf(extras))>>>> ELSE <<>>

NumDatasetParsers == 9

\* parsers[n](dataset_dict), n = 1 .. 9, in the order of the list
DatasetParser(n, d) ==
    CASE n = 1 -> rename_dict_key(k_title, k_title, d)
      [] n = 2 -> rename_dict_key(k_version, k_version, d)
      [] n = 3 -> parse_ckan_url(d)
      [] n = 4 -> parse_notes(d)
      [] n = 5 -> parse_license(d)
      [] n = 6 -> parse_author_and_source(d)
      [] n = 7 -> parse_maintainer(d)
      [] n = 8 -> parse_tags(d)
      [] n = 9 -> parse_extras(d)

(***************************************************************************)
(* The resource converter of dataset_to_datapackage.                       *)
(***************************************************************************)
\* the name and title part; ok is FALSE where resource_dict['id'] raises
ResourceName(resource, resource_dict) ==
    IF Truthy(Get(resource_dict, k_name))
    THEN [ok |-> TRUE,
          val |-> Put(Put(resource, k_name,
                          Str(Lower(Slugify(Item(resource_dict, k_name)[2])))),
                      k_title, Item(resource_dict, k_name))]
    ELSE IF Has(resource_dict, k_id)
    THEN [ok |-> TRUE, val |-> Put(resource, k_name, Item(resource_dict, k_id))]
    ELSE [ok |-> FALSE, val |-> resource]

ResourceSchema(resource, resource_dict) ==
    LET schema == Get(resource_dict, k_schema)
    IN  IF schema[1] = "str"
        THEN Put(resource, k_schema,
                 IF Loads(schema).ok THEN Loads(schema).val ELSE schema)
        ELSE IF schema[1] = "dict" THEN Put(resource, k_schema, schema)
        ELSE resource

\* the dict _convert_to_datapackage_resource builds from resource_dict
convert_to_datapackage_resource(resource_dict) ==
    LET r1 == CopyIfTruthy(<<>>, k_path, resource_dict, k_url)
        r2 == CopyIfTruthy(r1, k_description, resource_dict, k_description)
        r3 == CopyIfTruthy(r2, k_format, resource_dict, k_format)
        r4 == CopyIfTruthy(r3, k_hash, resource_dict, k_hash)
        r5 == ResourceName(r4, resource_dict)
    IN  [ok |-> r5.ok, val |-> ResourceSchema(r5.val, resource_dict)]

(***************************************************************************)
(* The heap of dataset-side resource dicts.  `resource = {}` allocates a   *)
(* new dict; a list of resources is a list of references.                  *)
(***************************************************************************)
\* a faulty variant: fills in and returns the dict it was given, no new one
ConvertResourceInPlace(h, r) ==
    LET c == convert_to_datapackage_resource(h[r])
    IN  [ok |-> c.ok, heap |-> [h EXCEPT ![r] = Update(h[r], c.val)], ref |-> r]

\* _convert_to_datapackage_resource(r): the result is a newly allocated dict
ConvertResource(h, r) ==
    LET c == convert_to_datapackage_resource(h[r])
    IN  [ok |-> c.ok, heap |-> Append(h, c.val), ref |-> Len(h) + 1]

RECURSIVE ConvertAll(_, _, _)
\* [_convert_to_datapackage_resource(r) for r in resources]
ConvertAll(h, refs, out) ==
    IF refs = <<>> THEN [ok |-> TRUE, heap |-> h, refs |-> out]
    ELSE LET c == ConvertResource(h, Head(refs)[2])
         IN  IF c.ok
             THEN ConvertAll(c.heap, Tail(refs), Append(out, Ref(c.ref)))
             ELSE [ok |-> FALSE, heap |-> h, refs |-> out]

\* the value x with the references in a list replaced by the dicts they name
DerefValue(x, h) ==
    IF x[1] = "list"
    THEN List([n \in DOMAIN x[2] |->
                  IF x[2][n][1] = "ref" THEN Dict(h[x[2][n][2]]) ELSE x[2][n]])
    ELSE x

\* the dict d as a value: what a caller that walks it sees
Deep(d, h) == [n \in DOMAIN d |-> <<d[n][1], DerefValue(d[n][2], h)>>]

\* a faulty variant: the counter is not incremented, so every later
\* duplicate gets the same suffix
DedupStepNoIncrement(h, nm, ref) ==
    LET name == Item(h[ref], k_name)[2]
    IN  IF Has(nm, name)
        THEN [heap |-> [h EXCEPT ![ref] =
                           Put(@, k_name,
                               Str(name \o IntToStr(Item(nm, name)[2])))],
              names |-> nm]
        ELSE [heap |-> h, names |-> Put(nm, name, Num(0))]

\* one turn of the loop that ensures unique resource names
DedupStep(h, nm, ref) ==
    LET name == Item(h[ref], k_name)[2]
    IN  IF Has(nm, name)
        THEN [heap |-> [h EXCEPT ![ref] =
                           Put(@, k_name,
                               Str(name \o IntToStr(Item(nm, name)[2])))],
              names |-> Put(nm, name, Num(Item(nm, name)[2] + 1))]
        ELSE [heap |-> h, names |-> Put(nm, name, Num(0))]

(***************************************************************************)
(* dataset_to_datapackage, one action per statement or loop turn.          *)
(***************************************************************************)
NoReturn == <<"unset", 0>>
NoExc == [type |-> "none", arg |-> <<>>]
Exc(type, arg) == [type |-> type, arg |-> arg]

InD2P(at) == call = "dataset_to_datapackage" /\ pc = at

\* datapackage = {'name': dataset_dict['name']}
D2P_Begin ==
    /\ InD2P("start")
    /\ IF Has(dataset_dict, k_name)
       THEN /\ datapackage' = <<<<k_name, Item(dataset_dict, k_name)>>>>
            /\ pc' = "parsers"
            /\ i' = 1
            /\ exc' = exc
       ELSE /\ exc' = Exc("KeyError", k_name)
            /\ pc' = "raised"
            /\ UNCHANGED <<datapackage, i>>
    /\ UNCHANGED <<call, dataset_dict, heap, names, acc, ret, input0, origin>>

\* one turn of `for parser in parsers`
D2P_Parser ==
    /\ InD2P("parsers")
    /\ datapackage' = Update(datapackage, DatasetParser(i, dataset_dict))
    /\ IF i < NumDatasetParsers
       THEN i' = i + 1 /\ pc' = pc
       ELSE i' = 0 /\ pc' = "resources"
    /\ UNCHANGED <<call, dataset_dict, heap, names, acc, ret, exc, input0, origin>>

\* resources = dataset_dict.get('resources'); if resources: ...
D2P_Resources ==
    /\ InD2P("resources")
    /\ LET resources == Get(dataset_dict, k_resources)
           c == ConvertAll(heap, resources[2], <<>>)
       IN  IF ~Truthy(resources)
           THEN /\ pc' = "dedup"
                /\ UNCHANGED <<datapackage, heap, exc>>
           ELSE IF c.ok
           THEN /\ datapackage' = Put(datapackage, k_resources, List(c.refs))
                /\ heap' = c.heap
                /\ pc' = "dedup"
                /\ exc' = exc
           ELSE /\ exc' = Exc("KeyError", k_id)
                /\ pc' = "raised"
                /\ UNCHANGED <<datapackage, heap>>
    /\ i' = 1
    /\ names' = <<>>
    /\ UNCHANGED <<call, dataset_dict, acc, ret, input0, origin>>

\* one turn of `for resource in datapackage.get('resources', [])`
D2P_Dedup ==
    /\ InD2P("dedup")
    /\ LET resources == GetDefault(datapackage, k_resources, List(<<>>))[2]
       IN  IF i <= Len(resources)
           THEN LET d == DedupStep(heap, names, resources[i][2])
                IN  /\ heap' = d.heap
                    /\ names' = d.names
                    /\ i' = i + 1
                    /\ pc' = pc
           ELSE /\ pc' = "return"
                /\ UNCHANGED <<heap, names, i>>
    /\ UNCHANGED <<call, dataset_dict, datapackage, acc, ret, exc, input0, origin>>

\* return datapackage
D2P_Return ==
    /\ InD2P("return")
    /\ ret' = Dict(datapackage)
    /\ pc' = "done"
    /\ UNCHANGED <<call, dataset_dict, datapackage, heap, i, names, acc, exc,
                   input0, origin>>

(***************************************************************************)
(* The parsers of datapackage_to_dataset.  Each returns [ok, val, exc]:    *)
(* the dict to merge, or the exception the parser raises.                  *)
(***************************************************************************)
Returns(d) == [ok |-> TRUE, val |-> d, exc |-> NoExc]
Raises(type, arg) == [ok |-> FALSE, val |-> <<>>, exc |-> Exc(type, arg)]

datapackage_parse_license(d) ==
    LET dataset_license == Get(d, k_license)
        l1 == CopyIfTruthy(<<>>, k_license_id, dataset_license[2], k_type)
        l2 == CopyIfTruthy(l1, k_license_title, dataset_license[2], k_title)
    IN  IF ~Truthy(dataset_license) THEN Returns(<<>>)
        ELSE IF dataset_license[1] = "dict"
        THEN IF Truthy(Get(dataset_license[2], k_title))
             THEN IF Has(dataset_license[2], k_url)
                  THEN Returns(Put(l2, k_license_url,
                                   Item(dataset_license[2], k_url)))
                  ELSE Raises("KeyError", k_url)
             ELSE Returns(l2)
        ELSE IF dataset_license[1] = "str"
        THEN Returns(<<<<k_license_id, dataset_license>>>>)
        ELSE Returns(<<>>)

\* if value: d[key] = value
PutIfTruthy(d, key, value) == IF Truthy(value) THEN Put(d, key, value) ELSE d

datapackage_parse_sources(d) ==
    LET sources == Get(d, k_sources)
        first == sources[2][1][2]
        r1 == PutIfTruthy(<<>>, k_author, Get(first, k_name))
        r2 == PutIfTruthy(r1, k_author_email, Get(first, k_email))
    IN  IF Truthy(sources)
        THEN Returns(PutIfTruthy(r2, k_url, Get(first, k_web)))
        ELSE Returns(<<>>)

RECURSIVE NameEnd(_, _)
\* (?P<name>[^<]+) from position p: the last position of the longest run
\* of characters other than "<", p - 1 if the run is empty
NameEnd(s, p) ==
    IF p <= Len(s) /\ s[p] # "<" THEN NameEnd(s, p + 1) ELSE p - 1

RECURSIVE NonSpaceEnd(_, _)
\* the last position of the run of non-blank characters that starts at p
NonSpaceEnd(s, p) ==
    IF p <= Len(s) /\ s[p] \notin Whitespace THEN NonSpaceEnd(s, p + 1) ELSE p - 1

\* (?:<(?P<email>\S+)>)? at position p: the positions where a ">" can close
\* the group; \S+ is greedy, so the last of them is taken
EmailCloses(s, p) ==
    IF p <= Len(s) /\ s[p] = "<"
    THEN {j \in (p + 2)..NonSpaceEnd(s, p + 1) : s[j] = ">"}
    ELSE {}

Max(S) == CHOOSE x \in S : \A y \in S : y <= x

\* re.match(r'(?P<name>[^<]+)(?:<(?P<email>\S+)>)?', author): matched is
\* FALSE where the result is None
AuthorMatch(s) ==
    LET n == NameEnd(s, 1)
        closes == EmailCloses(s, n + 1)
    IN  [matched |-> n >= 1,
         name |-> Str(SubSeq(s, 1, n)),
         email |-> IF closes = {} THEN None
                   ELSE Str(SubSeq(s, n + 2, Max(closes) - 1))]

\* the two trailing ifs of _datapackage_parse_author
AuthorResult(maintainer, maintainer_email) ==
    LET r1 == IF Truthy(maintainer)
              THEN <<<<k_maintainer, Str(Strip(maintainer[2]))>>>>
              ELSE <<>>
    IN  IF Truthy(maintainer) /\ maintainer[1] # "str"
        THEN Raises("AttributeError", <<>>)
        ELSE Returns(PutIfTruthy(r1, k_maintainer_email, maintainer_email))

datapackage_parse_author(d) ==
    LET author == Get(d, k_author)
    IN  IF ~Truthy(author) THEN Returns(<<>>)
        ELSE IF author[1] = "dict"
        THEN AuthorResult(Get(author[2], k_name), Get(author[2], k_email))
        ELSE IF author[1] = "str"
        THEN IF AuthorMatch(author[2]).matched
             THEN AuthorResult(AuthorMatch(author[2]).name,
                               AuthorMatch(author[2]).email)
             ELSE Raises("AttributeError", <<>>)
        ELSE Returns(<<>>)

datapackage_parse_keywords(d) ==
    LET keywords == Get(d, k_keywords)
    IN  IF Truthy(keywords)
        THEN Returns(<<<<k_tags,
                         List([n \in DOMAIN keywords[2] |->
                                  Dict(<<<<k_name,
                                           Str(Slugify(keywords[2][n][2]))>>>>)])>>>>)
        ELSE Returns(<<>>)

known_fields ==
    {k_name, k_resources, k_license, k_title, k_description, k_homepage,
     k_version, k_sources, k_author, k_keywords}

\* extra['value'] after the loop body: structured values are serialized
EncodeExtra(value) == IF value[1] \in {"dict", "list"} THEN Dumps(value) ELSE value

datapackage_parse_unknown_fields_as_extras(d) ==
    LET unknown == SelectSeq(d, LAMBDA kv : kv[1] \notin known_fields)
        extras == [n \in DOMAIN unknown |->
                      Dict(<<<<k_key, Str(unknown[n][1])>>,
                             <<k_value, EncodeExtra(unknown[n][2])>>>>)]
    IN  IF extras # <<>>
        THEN Returns(<<<<k_extras, List(extras)>>>>)
        ELSE Returns(<<>>)

NumPackageParsers == 8

\* parsers[n](datapackage.descriptor), n = 1 .. 8, in the order of the list
PackageParser(n, d) ==
    CASE n = 1 -> Returns(rename_dict_key(k_title, k_title, d))
      [] n = 2 -> Returns(rename_dict_key(k_version, k_version, d))
      [] n = 3 -> Returns(rename_dict_key(k_description, k_notes, d))
      [] n = 4 -> datapackage_parse_license(d)
      [] n = 5 -> datapackage_parse_sources(d)
      [] n = 6 -> datapackage_parse_author(d)
      [] n = 7 -> datapackage_parse_keywords(d)
      [] n = 8 -> datapackage_parse_unknown_fields_as_extras(d)

(***************************************************************************)
(* The resource converter of datapackage_to_dataset.  A package resource   *)
(* is [descriptor, mode, source]; resource.local, resource.remote and      *)
(* resource.inline are the tests of its mode.                              *)
(***************************************************************************)
Modes == {"local", "remote", "inline", "multipart"}

\* a faulty variant: a resource in no supported mode is converted without a
\* source instead of being refused
StorageModeLenient(resource_dict, resource) ==
    IF resource.mode = "local"
    THEN Returns(Put(resource_dict, k_path, resource.source))
    ELSE IF resource.mode = "remote"
    THEN Returns(Put(resource_dict, k_url, resource.source))
    ELSE IF resource.mode = "inline"
    THEN Returns(Put(resource_dict, k_data, resource.source))
    ELSE Returns(resource_dict)

\* the if/elif chain on resource.local, resource.remote, resource.inline
StorageMode(resource_dict, resource) ==
    IF resource.mode = "local"
    THEN Returns(Put(resource_dict, k_path, resource.source))
    ELSE IF resource.mode = "remote"
    THEN Returns(Put(resource_dict, k_url, resource.source))
    ELSE IF resource.mode = "inline"
    THEN Returns(Put(resource_dict, k_data, resource.source))
    ELSE Raises("NotImplementedError", <<>>)

datapackage_resource_to_ckan_resource(resource) ==
    LET d == resource.descriptor
        r1 == IF Truthy(Get(d, k_name))
              THEN <<<<k_name,
                       IF Truthy(Get(d, k_title))
                       THEN Item(d, k_title) ELSE Item(d, k_name)>>>>
              ELSE <<>>
        r2 == StorageMode(r1, resource)
        r3 == CopyIfTruthy(r2.val, k_description, d, k_description)
        r4 == CopyIfTruthy(r3, k_format, d, k_format)
        r5 == CopyIfTruthy(r4, k_hash, d, k_hash)
    IN  IF r2.ok THEN Returns(CopyIfTruthy(r5, k_schema, d, k_schema)) ELSE r2

(***************************************************************************)
(* datapackage_to_dataset, one action per statement or loop turn.          *)
(***************************************************************************)
InP2D(at) == call = "datapackage_to_dataset" /\ pc = at

\* dataset_dict = {'name': datapackage.descriptor['name'].lower()}
P2D_Begin ==
    /\ InP2D("start")
    /\ LET d == datapackage.descriptor
       IN  IF ~Has(d, k_name)
           THEN /\ exc' = Exc("KeyError", k_name)
                /\ pc' = "raised"
                /\ UNCHANGED <<dataset_dict, i>>
           ELSE IF Item(d, k_name)[1] # "str"
           THEN /\ exc' = Exc("AttributeError", <<>>)
                /\ pc' = "raised"
                /\ UNCHANGED <<dataset_dict, i>>
           ELSE /\ dataset_dict' = <<<<k_name, Str(Lower(Item(d, k_name)[2]))>>>>
                /\ pc' = "parsers"
                /\ i' = 1
                /\ exc' = exc
    /\ UNCHANGED <<call, datapackage, heap, names, acc, ret, input0, origin>>

\* one turn of `for parser in parsers`
P2D_Parser ==
    /\ InP2D("parsers")
    /\ LET r == PackageParser(i, datapackage.descriptor)
       IN  IF r.ok
           THEN /\ dataset_dict' = Update(dataset_dict, r.val)
                /\ IF i < NumPackageParsers
                   THEN i' = i + 1 /\ pc' = pc
                   ELSE i' = 1 /\ pc' = "resources"
                /\ exc' = exc
           ELSE /\ exc' = r.exc
                /\ pc' = "raised"
                /\ UNCHANGED <<dataset_dict, i>>
    /\ UNCHANGED <<call, datapackage, heap, names, acc, ret, input0, origin>>

\* if datapackage.resources: one turn of the list comprehension, then the
\* assignment of the finished list
P2D_Resources ==
    /\ InP2D("resources")
    /\ LET resources == datapackage.resources
           r == datapackage_resource_to_ckan_resource(resources[i])
       IN  IF i <= Len(resources)
           THEN IF r.ok
                THEN /\ acc' = Append(acc, Dict(r.val))
                     /\ i' = i + 1
                     /\ UNCHANGED <<pc, exc, dataset_dict>>
                ELSE /\ exc' = r.exc
                     /\ pc' = "raised"
                     /\ UNCHANGED <<acc, i, dataset_dict>>
           ELSE /\ dataset_dict' =
                       IF resources # <<>>
                       THEN Put(dataset_dict, k_resources, List(acc))
                       ELSE dataset_dict
                /\ pc' = "return"
                /\ UNCHANGED <<acc, i, exc>>
    /\ UNCHANGED <<call, datapackage, heap, names, ret, input0, origin>>

\* return dataset_dict
P2D_Return ==
    /\ InP2D("return")
    /\ ret' = Dict(dataset_dict)
    /\ pc' = "done"
    /\ UNCHANGED <<call, dataset_dict, datapackage, heap, i, names, acc, exc,
                   input0, origin>>

(***************************************************************************)
(* The inputs: dataset records and packages of the shapes of the data      *)
(* model, one family per group of fields that a parser reads.              *)
(***************************************************************************)
Absent == <<"absent", 0>>

\* the dict with the keys ks[n] whose value f[n] is not Absent
MkDict(ks, f) ==
    SelectSeq([n \in DOMAIN ks |-> <<ks[n], f[n]>>], LAMBDA kv : kv[2] # Absent)

\* every dict over a subset of the keys ks with values in V
Records(ks, V) == {MkDict(ks, f) : f \in [DOMAIN ks -> V \cup {Absent}]}

SeqsUpTo(S, n) == UNION {[1..m -> S] : m \in 0..n}

ScalarVals == {None, Str(<<>>), Str(<<"T">>)}
NameVals == {Str(<<"d">>), Str(<<"D", "b">>)}
TagNames == {<<"a">>, <<"A", " ", "b">>, <<>>}
ExtraKeys == {<<"k">>, <<"j">>}
ExtraVals ==
    {Str(<<"p">>), Str(<<>>), Str(<<"1">>), None,
     Str(<<"{", "\"", "a", "\"", ":", "1", "}">>),
     Str(<<"[", "1", ",", " ", "\"", "b", "\"", "]">>)}

Named(d) == <<<<k_name, Str(<<"d">>)>>>> \o d

DatasetResources ==
    {<<<<k_name, Str(<<"a">>)>>>>,
     <<<<k_name, Str(<<"A">>)>>>>,
     <<<<k_name, Str(<<"a", "0">>)>>>>,
     <<<<k_id, Str(<<"a">>)>>>>,
     <<<<k_name, Str(<<>>)>>, <<k_id, Str(<<"a", "0">>)>>>>,
     <<<<k_url, Str(<<>>)>>>>,
     <<<<k_name, Str(<<"b", " ", "1">>)>>, <<k_url, Str(<<"h">>)>>,
       <<k_description, Str(<<"T">>)>>, <<k_format, Str(<<"T">>)>>,
       <<k_hash, Str(<<"T">>)>>,
       <<k_schema, Str(<<"{", "\"", "a", "\"", ":", "1", "}">>)>>>>,
     <<<<k_id, Str(<<"r">>)>>, <<k_url, Str(<<"/", "x">>)>>,
       <<k_schema, Dict(<<<<<<"a">>, Num(1)>>>>)>>>>}

\* a dataset record and the heap that holds its resource dicts
WithResources(d, rs) ==
    [dict |-> IF rs = <<>> THEN d
              ELSE Put(d, k_resources, List([n \in DOMAIN rs |-> Ref(n)])),
     heap |-> rs]

DatasetInputs ==
    {WithResources(<<<<k_name, nm>>>> \o d, <<>>) :
        nm \in NameVals,
        d \in Records(<<k_title, k_version, k_ckan_url, k_notes>>, ScalarVals)}
    \cup {WithResources(Named(d), <<>>) :
        d \in Records(<<k_license_id, k_license_title, k_license_url>>,
                      ScalarVals)}
    \cup {WithResources(Named(d), <<>>) :
        d \in Records(<<k_author, k_author_email, k_url>>, ScalarVals)}
    \cup {WithResources(Named(d), <<>>) :
        d \in Records(<<k_maintainer, k_maintainer_email>>, ScalarVals)}
    \cup {WithResources(
             Named(<<<<k_tags,
                       List([n \in DOMAIN ts |-> Dict(<<<<k_name, Str(ts[n])>>>>)])>>>>),
             <<>>) :
        ts \in SeqsUpTo(TagNames, MaxTags)}
    \cup {WithResources(
             Named(<<<<k_extras,
                       List([n \in DOMAIN es |->
                               Dict(<<<<k_key, Str(es[n][1])>>,
                                      <<k_value, es[n][2]>>>>)])>>>>),
             <<>>) :
        es \in SeqsUpTo(ExtraKeys \X ExtraVals, MaxExtras)}
    \cup {WithResources(Named(<<>>), rs) : rs \in SeqsUpTo(DatasetResources, MaxRes)}
    \cup {WithResources(<<<<k_title, Str(<<"T">>)>>>>, <<>>),
          WithResources(Named(<<<<k_resources, None>>>>), <<>>)}

AuthorChars == {"J", " ", "<", ">", "e"}
AuthorDictVals == {None, Str(<<>>), Str(<<" ", "J", " ">>), Str(<<"e">>)}
LicenseVals == {Str(<<>>), Str(<<"L">>)}
UnknownVals ==
    {Str(<<"p">>), Num(1), None,
     Dict(<<<<<<"a">>, Num(1)>>>>),
     List(<<Num(1), Str(<<"b">>)>>)}

SourceDicts == {Dict(d) : d \in Records(<<k_name, k_email, k_web>>, {Str(<<"T">>)})}

ResourceDescriptors ==
    {<<<<k_name, Str(<<"a">>)>>>>,
     <<<<k_name, Str(<<"a">>)>>, <<k_title, Str(<<"A">>)>>,
       <<k_description, Str(<<"T">>)>>, <<k_format, Str(<<"T">>)>>,
       <<k_hash, Str(<<>>)>>, <<k_schema, Dict(<<<<<<"a">>, Num(1)>>>>)>>>>}

\* resource.source of a resource in the given mode
SourceOf(mode) ==
    CASE mode = "local" -> Str(<<"/", "x">>)
      [] mode = "remote" -> Str(<<"h">>)
      [] mode = "inline" -> List(<<Num(1)>>)
      [] OTHER -> None

PackageResources ==
    {[descriptor |-> d, mode |-> m, source |-> SourceOf(m)] :
        d \in ResourceDescriptors, m \in Modes}

Package(d, rs) == [descriptor |-> d, resources |-> rs]

PackageInputs ==
    {Package(<<<<k_name, nm>>>> \o d, <<>>) :
        nm \in NameVals,
        d \in Records(<<k_title, k_version, k_description>>, ScalarVals)}
    \cup {Package(Named(<<<<k_license, l>>>>), <<>>) :
        l \in ScalarVals \cup
              {Dict(d) : d \in Records(<<k_type, k_title, k_url>>, LicenseVals)}}
    \cup {Package(Named(<<<<k_sources, List(ss)>>>>), <<>>) :
        ss \in {<<>>} \cup {<<a>> : a \in SourceDicts}
               \cup {<<a, b>> : a \in SourceDicts, b \in SourceDicts}}
    \cup {Package(Named(<<<<k_author, Str(a)>>>>), <<>>) :
        a \in SeqsUpTo(AuthorChars, MaxAuthorLen)}
    \cup {Package(Named(<<<<k_author, Dict(d)>>>>), <<>>) :
        d \in Records(<<k_name, k_email>>, AuthorDictVals)}
    \cup {Package(Named(<<<<k_keywords,
                            List([n \in DOMAIN ts |-> Str(ts[n])])>>>>), <<>>) :
        ts \in SeqsUpTo(TagNames, MaxTags)}
    \cup {Package(Named(d), <<>>) :
        d \in Records(<<k_extras, <<"x">>, k_homepage>>, UnknownVals)}
    \cup {Package(Named(<<>>), rs) : rs \in SeqsUpTo(PackageResources, MaxRes)}
    \cup {Package(<<<<k_title, Str(<<"T">>)>>>>, <<>>)}

(***************************************************************************)
(* The calls.                                                              *)
(***************************************************************************)
InitD2P ==
    \E in \in DatasetInputs :
        /\ call = "dataset_to_datapackage"
        /\ dataset_dict = in.dict
        /\ heap = in.heap
        /\ datapackage = <<>>
        /\ input0 = Dict(Deep(in.dict, in.heap))
        /\ origin = Dict(Deep(in.dict, in.heap))

InitP2D ==
    \E in \in PackageInputs :
        /\ call = "datapackage_to_dataset"
        /\ datapackage = in
        /\ dataset_dict = <<>>
        /\ heap = <<>>
        /\ input0 = in
        /\ origin = None

Init ==
    /\ InitD2P \/ InitP2D
    /\ pc = "start"
    /\ i = 0
    /\ names = <<>>
    /\ acc = <<>>
    /\ ret = NoReturn
    /\ exc = NoExc

\* the package resource a loader builds from a resource descriptor; which
\* storage mode it reports is the loader's choice
LoadedResource(d, mode) ==
    [descriptor |-> d,
     mode |-> mode,
     source |-> IF mode \in {"local", "remote"} THEN Get(d, k_path)
                ELSE IF mode = "inline" THEN Get(d, k_data)
                ELSE None]

\* the round trip: the descriptor that dataset_to_datapackage returned is
\* loaded as a package and handed to datapackage_to_dataset
Load ==
    /\ InD2P("done")
    /\ LET descriptor == Deep(ret[2], heap)
           rds == GetDefault(descriptor, k_resources, List(<<>>))[2]
       IN  /\ Len(rds) <= MaxLoadRes
           /\ \E modes \in [DOMAIN rds -> Modes] :
                 /\ datapackage' =
                       Package(descriptor,
                               [n \in DOMAIN rds |->
                                   LoadedResource(rds[n][2], modes[n])])
                 /\ input0' =
                       Package(descriptor,
                               [n \in DOMAIN rds |->
                                   LoadedResource(rds[n][2], modes[n])])
    /\ call' = "datapackage_to_dataset"
    /\ pc' = "start"
    /\ dataset_dict' = <<>>
    /\ heap' = <<>>
    /\ i' = 0
    /\ names' = <<>>
    /\ acc' = <<>>
    /\ ret' = NoReturn
    /\ UNCHANGED <<exc, origin>>

Next ==
    \/ D2P_Begin
    \/ D2P_Parser
    \/ D2P_Resources
    \/ D2P_Dedup
    \/ D2P_Return
    \/ Load
    \/ P2D_Begin
    \/ P2D_Parser
    \/ P2D_Resources
    \/ P2D_Return

Spec == Init /\ [][Next]_vars

(***************************************************************************)
(* What the claims speak about.                                            *)
(***************************************************************************)
D2PDone == call = "dataset_to_datapackage" /\ pc = "done"
P2DDone == call = "datapackage_to_dataset" /\ pc = "done"
P2DRaised == call = "datapackage_to_dataset" /\ pc = "raised"

\* the resource dicts of a dict given as a value
ResourcesOf(d) ==
    LET r == Get(d, k_resources) IN IF r[1] = "list" THEN r[2] ELSE <<>>

\* the resources of the input record, and their names once converted
InResources == ResourcesOf(origin[2])
Converted(n) == convert_to_datapackage_resource(InResources[n][2]).val
ConvertedName(n) == Item(Converted(n), k_name)[2]

\* the resources of the descriptor that dataset_to_datapackage returned
OutResources == ResourcesOf(Deep(ret[2], heap))
OutName(n) == Item(OutResources[n][2], k_name)[2]

\* how many resources before the n-th have the n-th one's converted name
Earlier(n) == Cardinality({m \in 1..(n - 1) : ConvertedName(m) = ConvertedName(n)})

\* C1: the resource list that dataset_to_datapackage returns holds no two
\* resources with the same name.
C1_UniqueResourceNames ==
    D2PDone =>
        \A m, n \in DOMAIN OutResources : m # n => OutName(m) # OutName(n)

\* C2: the de-duplicator keeps the number and order of the resources; the
\* first resource with a converted name keeps it, and the k-th later one
\* with that converted name gets the name followed by the decimal k - 1.
C2_DedupNumbering ==
    D2PDone =>
        /\ Len(OutResources) = Len(InResources)
        /\ \A n \in DOMAIN OutResources :
              /\ OutName(n) =
                    IF Earlier(n) = 0 THEN ConvertedName(n)
                    ELSE ConvertedName(n) \o IntToStr(Earlier(n) - 1)
              /\ OutResources[n][2] = Put(Converted(n), k_name, Str(OutName(n)))

\* three resources with the converted name a have become a, a0, a1
C2_Witness ==
    /\ D2PDone
    /\ Len(OutResources) = 3
    /\ \A n \in 1..3 : ConvertedName(n) = <<"a">>
    /\ OutName(1) = <<"a">>
    /\ OutName(2) = <<"a", "0">>
    /\ OutName(3) = <<"a", "1">>

\* the fields of the dataset record that a top-level key of the descriptor
\* is built from
SourceFields(key) ==
    CASE key = k_title -> {k_title}
      [] key = k_version -> {k_version}
      [] key = k_homepage -> {k_ckan_url}
      [] key = k_description -> {k_notes}
      [] key = k_license -> {k_license_id, k_license_title, k_license_url}
      [] key = k_sources -> {k_author, k_author_email, k_url}
      [] key = k_author -> {k_maintainer, k_maintainer_email}
      [] key = k_keywords -> {k_tags}
      [] key = k_extras -> {k_extras}
      [] key = k_resources -> {k_resources}
      [] OTHER -> {}

\* neither null nor an empty string, object or list
NonEmpty(x) == x # None /\ (x[1] \in {"str", "list", "dict"} => x[2] # <<>>)

\* the dicts inside license, sources[0] and author
InnerDicts(d) ==
    (IF Has(d, k_license) THEN {Item(d, k_license)[2]} ELSE {})
    \cup (IF Has(d, k_sources) THEN {Item(d, k_sources)[2][1][2]} ELSE {})
    \cup (IF Has(d, k_author) THEN {Item(d, k_author)[2]} ELSE {})

\* C9: the descriptor that dataset_to_datapackage returns has a top-level
\* key other than name only when a field it is built from is present and
\* non-empty; no such key maps to null or to an empty string, object or
\* list; no field inside license, sources[0] or author is null or empty;
\* a record that holds only name yields exactly {name}.
C9_NoEmptyOutput ==
    D2PDone =>
        LET out == Deep(ret[2], heap)
        IN  /\ Has(out, k_name)
            /\ Item(out, k_name) = Item(origin[2], k_name)
            /\ \A key \in Keys(out) \ {k_name} :
                  /\ NonEmpty(Item(out, key))
                  /\ \E f \in SourceFields(key) : Truthy(Get(origin[2], f))
            /\ \A d \in InnerDicts(out) :
                  \A key \in Keys(d) : NonEmpty(Item(d, key))
            /\ Keys(origin[2]) = {k_name} => Keys(out) = {k_name}

\* a record whose title is null or empty and whose version is not has been
\* converted: the descriptor has the version and no title
C9_Witness ==
    /\ D2PDone
    /\ Has(origin[2], k_title)
    /\ ~Truthy(Item(origin[2], k_title))
    /\ Has(ret[2], k_version)
    /\ ~Has(ret[2], k_title)

\* C10: neither conversion changes its input: the dataset record and its
\* resource dicts during dataset_to_datapackage, the package and its
\* descriptor during datapackage_to_dataset.
C10_InputUnchanged ==
    /\ call = "dataset_to_datapackage" =>
          Dict(Deep(dataset_dict, heap)) = input0
    /\ call = "datapackage_to_dataset" => datapackage = input0

\* the de-duplicator has renamed a resource of the output, and the name of
\* the input resource it was converted from is still the one given
C10_Witness ==
    /\ D2PDone
    /\ \E n \in DOMAIN OutResources :
          /\ OutName(n) # ConvertedName(n)
          /\ Has(InResources[n][2], k_name)
          /\ Item(heap[ResourcesOf(dataset_dict)[n][2]], k_name)
                = Item(InResources[n][2], k_name)

\* the package handed to datapackage_to_dataset, and what it returned
Descriptor == input0.descriptor
Unsupported == {n \in DOMAIN input0.resources :
                   input0.resources[n].mode \notin {"local", "remote", "inline"}}

\* C3: datapackage_to_dataset fails in two ways only: with the missing
\* field error when the descriptor has no name, and with the unsupported
\* mode error when a resource is neither local, remote nor inline.
C3_OnlyTwoFailures ==
    P2DRaised =>
        \/ exc = Exc("KeyError", k_name) /\ ~Has(Descriptor, k_name)
        \/ exc.type = "NotImplementedError" /\ Unsupported # {}

\* every parser of the pipeline returns on the descriptor
ParsersReturn ==
    /\ Has(Descriptor, k_name)
    /\ \A n \in 1..NumPackageParsers : PackageParser(n, Descriptor).ok

\* the dataset resource that the n-th package resource must become
SourceKey(mode) ==
    CASE mode = "local" -> k_path
      [] mode = "remote" -> k_url
      [] mode = "inline" -> k_data

MapsTo(key, value) ==
    /\ Has(ret[2], key) <=> Truthy(value)
    /\ Has(ret[2], key) => Item(ret[2], key) = value

\* C7: a string license sets license_id alone; an object license sets
\* license_id from type, license_title from title and license_url from
\* url, each exactly when the subfield is present and non-empty.
C7_LicenseMapping ==
    LET license == Get(Descriptor, k_license)
    IN  /\ (P2DDone /\ license[1] = "str") =>
              /\ MapsTo(k_license_id, license)
              /\ ~Has(ret[2], k_license_title)
              /\ ~Has(ret[2], k_license_url)
        /\ (P2DDone /\ license[1] = "dict") =>
              /\ MapsTo(k_license_id, Get(license[2], k_type))
              /\ MapsTo(k_license_title, Get(license[2], k_title))
              /\ MapsTo(k_license_url, Get(license[2], k_url))
        /\ (P2DRaised /\ license[1] \in {"str", "dict"}) =>
              exc # Exc("KeyError", k_url)

\* the position of the first "<" of s, Len(s) + 1 if it has none
FirstAngle(s) ==
    IF \E p \in DOMAIN s : s[p] = "<"
    THEN CHOOSE p \in DOMAIN s : s[p] = "<" /\ \A q \in 1..(p - 1) : s[q] # "<"
    ELSE Len(s) + 1

\* the positions of a ">" that closes a group opened at the first "<":
\* between the two there is text, and no blank
GroupEnds(s) ==
    {j \in DOMAIN s :
        /\ j > FirstAngle(s) + 1
        /\ s[j] = ">"
        /\ \A q \in (FirstAngle(s) + 1)..j : s[q] \notin Whitespace}

\* C8: for a non-empty string author, maintainer is the text before the
\* optional <...> group, stripped, and maintainer_email the text inside
\* the group; without a group there is no maintainer_email; an object
\* author gives maintainer from its name and maintainer_email from its
\* email.
C8_AuthorParsing ==
    LET author == Get(Descriptor, k_author)
        s == author[2]
    IN  /\ (P2DRaised /\ author[1] \in {"str", "dict"}) =>
              exc.type # "AttributeError"
        /\ (P2DDone /\ author[1] = "str" /\ s # <<>>) =>
              /\ Get(ret[2], k_maintainer)
                    = Str(Strip(SubSeq(s, 1, FirstAngle(s) - 1)))
              /\ IF GroupEnds(s) # {}
                 THEN Get(ret[2], k_maintainer_email)
                         = Str(SubSeq(s, FirstAngle(s) + 1, Max(GroupEnds(s)) - 1))
                 ELSE ~Has(ret[2], k_maintainer_email)
        /\ (P2DDone /\ author[1] = "dict" /\ author[2] # <<>>) =>
              /\ IF Truthy(Get(s, k_name))
                 THEN Get(ret[2], k_maintainer) = Str(Strip(Get(s, k_name)[2]))
                 ELSE ~Has(ret[2], k_maintainer)
              /\ MapsTo(k_maintainer_email, Get(s, k_email))

\* the round trip has returned: origin is the dataset record it began with
RoundTripDone == P2DDone /\ origin # None

\* a value, with every null or empty value taken as the absent one
Effective(x) == IF Truthy(x) THEN x ELSE None

\* the names of the tags of a dataset record, in order
TagNamesOf(d) ==
    LET tags == Get(d, k_tags)
    IN  IF tags[1] = "list"
        THEN [n \in DOMAIN tags[2] |-> Item(tags[2][n][2], k_name)[2]]
        ELSE <<>>

SlugifiedTags(d) == [n \in DOMAIN TagNamesOf(d) |-> Slugify(TagNamesOf(d)[n])]

ExtrasOf(d) ==
    LET extras == Get(d, k_extras)
    IN  IF extras[1] = "list"
        THEN [n \in DOMAIN extras[2] |->
                 <<Item(extras[2][n][2], k_key)[2], Item(extras[2][n][2], k_value)>>]
        ELSE <<>>

DistinctKeys(pairs) ==
    \A m, n \in DOMAIN pairs : m # n => pairs[m][1] # pairs[n][1]

\* the value is the text of a mapping or of a sequence
Structured(value) == Loads(value).ok /\ Loads(value).val[1] \in {"dict", "list"}

\* C5: the round trip gives back the extras of a record with distinct keys:
\* the same keys, a plain string exactly, and the text of a mapping or of a
\* sequence as a text of the same value.
C5_ExtrasRoundTrip ==
    (RoundTripDone /\ ExtrasOf(origin[2]) # <<>> /\ DistinctKeys(ExtrasOf(origin[2]))) =>
        LET given == ExtrasOf(origin[2])
            back == ExtrasOf(ret[2])
        IN  /\ Len(back) = Len(given)
            /\ \A n \in DOMAIN given :
                  \E m \in DOMAIN back :
                     /\ back[m][1] = given[n][1]
                     /\ Structured(given[n][2]) =>
                           Loads(back[m][2]) = Loads(given[n][2])
                     /\ (given[n][2][1] = "str" /\ ~Loads(given[n][2]).ok) =>
                           back[m][2] = given[n][2]

====
